---- MODULE Spec2Model ----
(***************************************************************************)
(* The App component of src/App.tsx: two file inputs, the generate button, *)
(* the asynchronous handler handleGenerateClick and the encoder            *)
(* fileToBase64.  React state fields are the variables; every handler and  *)
(* every resumption of the async handler after an await is one action      *)
(* (the event loop runs each of them to completion).                       *)
(*                                                                         *)
(* A TypeScript value of type  T | null  is a record: Null, or a record    *)
(* with the fields of T.  Strings that the code takes apart (the data URL  *)
(* read from a file) are sequences of tokens; the tokens ":", ";", ","     *)
(* and "NL" (a line terminator) are the characters the code looks at, any  *)
(* other token is a run of other characters.                               *)
(***************************************************************************)
EXTENDS Naturals, Sequences, FiniteSets

VARIABLES
    childPhoto,         \* useState<File | null>, line 63
    adultPhoto,         \* line 64
    childPhotoPreview,  \* line 65
    adultPhotoPreview,  \* line 66
    generatedImage,     \* line 67
    isLoading,          \* line 68
    error,              \* line 69
    attempts,           \* the suspended activations of handleGenerateClick
    lastEvent,          \* history: the handler or resumption that ran last
    lastDone,           \* history: the activation that finished last
    outcomes,           \* history: how the last MaxHist activations ended
    encInput,           \* the read result handed to a lone fileToBase64
    encOutput           \* what that fileToBase64 settled with

vars == <<childPhoto, adultPhoto, childPhotoPreview, adultPhotoPreview,
          generatedImage, isLoading, error, attempts, lastEvent, lastDone,
          outcomes, encInput, encOutput>>

encVars == <<encInput, encOutput>>

appVars == <<childPhoto, adultPhoto, childPhotoPreview, adultPhotoPreview,
             generatedImage, isLoading, error, attempts, lastEvent, lastDone,
             outcomes>>

----------------------------------------------------------------------------
(* Bounds *)

MaxInFlight == 2    \* activations of handleGenerateClick suspended at once
NumVariants == 2    \* distinct references the client may resolve with
MaxHist == 2        \* finished activations whose outcome is remembered
MaxLen == 6         \* tokens in a read result given to the lone encoder

Slots == 1..MaxInFlight

----------------------------------------------------------------------------
(* Values *)

Null == [null |-> TRUE]

ValidationMsg == [message |-> "Please upload both photos before generating."]
FailureMsg == [message |-> "Failed to generate the image. Please try again."]

FileNames == {"png", "jpeg", "empty"}
Files == {[name |-> n] : n \in FileNames}

\* What readAsDataURL produces for each selectable file.
Content(file) ==
    CASE file = [name |-> "png"] ->
             <<"data", ":", "image/png", ";", "base64", ",", "iVBOR">>
      [] file = [name |-> "jpeg"] ->
             <<"data", ":", "image/jpeg", ";", "base64", ",", "/9j/4">>
      [] file = [name |-> "empty"] -> <<"data", ":">>
      [] OTHER -> <<>>

ReadFailure == [ok |-> FALSE, result |-> <<>>]
ReadSuccess(str) == [ok |-> TRUE, result |-> str]

\* A read of a file either loads its content or errors (reader.onerror).
ReadOutcomes(file) == {ReadSuccess(Content(file)), ReadFailure}

createObjectURL(file) == [blob |-> file]

----------------------------------------------------------------------------
(* fileToBase64, lines 76-97 *)

Alphabet == {":", ";", ",", "a", "NL"}

Strings == UNION {[1..n -> Alphabet] : n \in 0..MaxLen}

\* String.prototype.indexOf from position `from`; 0 when absent.
IndexOf(s, c, from) ==
    IF \E k \in from..Len(s) : s[k] = c
    THEN CHOOSE k \in from..Len(s) :
             s[k] = c /\ \A m \in from..(k - 1) : s[m] # c
    ELSE 0

\* result.split(',')
RECURSIVE split(_)
split(s) ==
    LET c == IndexOf(s, ",", 1)
    IN  IF c = 0 THEN <<s>>
        ELSE <<SubSeq(s, 1, c - 1)>> \o split(SubSeq(s, c + 1, Len(s)))

\* header.match(/:(.*?);/): the leftmost ":" from which a ";" is reached
\* without crossing a line terminator, and the lazy group up to the first
\* such ";".  matched = FALSE is the null result.
match(header) ==
    LET starts == {i \in 1..Len(header) :
                     /\ header[i] = ":"
                     /\ \E j \in (i + 1)..Len(header) :
                           /\ header[j] = ";"
                           /\ \A k \in (i + 1)..(j - 1) : header[k] # "NL"}
    IN  IF starts = {} THEN [matched |-> FALSE, group |-> <<>>]
        ELSE LET i == CHOOSE i \in starts : \A m \in starts : i <= m
                 j == IndexOf(header, ";", i + 1)
             IN  [matched |-> TRUE, group |-> SubSeq(header, i + 1, j - 1)]

Rejected(why) == [status |-> "rejected", reason |-> why,
                  mimeType |-> <<>>, data |-> <<>>]
Resolved(mime, payload) == [status |-> "resolved", reason |-> "",
                            mimeType |-> mime, data |-> payload]

fileToBase64_NoMimeCheck(read) ==
    IF ~read.ok THEN Rejected("read error")
    ELSE LET parts == split(read.result)
             header == parts[1]
             noData == Len(parts) < 2 \/ parts[2] = <<>>
         IN  IF header = <<>> \/ noData
             THEN Rejected("Invalid file format")
             ELSE Resolved(match(header).group, parts[2])

fileToBase64(read) ==
    IF ~read.ok THEN Rejected("read error")
    ELSE LET parts == split(read.result)
             header == parts[1]
             noData == Len(parts) < 2 \/ parts[2] = <<>>
         IN  IF header = <<>> \/ noData
             THEN Rejected("Invalid file format")
             ELSE LET mimeTypeMatch == match(header)
                  IN  IF ~mimeTypeMatch.matched \/ mimeTypeMatch.group = <<>>
                      THEN Rejected("Could not determine MIME type")
                      ELSE Resolved(mimeTypeMatch.group, parts[2])

ImageData(r) == [mimeType |-> r.mimeType, data |-> r.data]

----------------------------------------------------------------------------
(* generateHuggingImage, ./services/geminiService (imported at line 3) *)

\* The references the client may resolve with for one request.
generateHuggingImage(childImage, adultImage) ==
    {[child |-> childImage, adult |-> adultImage, variant |-> v] :
        v \in 1..NumVariants}

----------------------------------------------------------------------------
(* The suspended activations of handleGenerateClick *)

FreeSlot == [pc |-> "free", child |-> Null, adult |-> Null,
             childPhotoData |-> Null, request |-> Null, trace |-> <<>>]

Active(s) == attempts[s].pc # "free"

InFlight == {s \in Slots : Active(s)}

NoneDone == [trace |-> <<>>, result |-> Null]

\* The last MaxHist entries of h.
Window(h) ==
    IF Len(h) <= MaxHist THEN h ELSE SubSeq(h, Len(h) - MaxHist + 1, Len(h))

\* The activation in slot s returns: its frame is dropped and remembered.
Finish(s, outcome, imageUrl) ==
    /\ attempts' = [attempts EXCEPT ![s] = FreeSlot]
    /\ lastDone' = [trace |-> Append(attempts[s].trace, outcome),
                    result |-> imageUrl]
    /\ outcomes' = Window(Append(outcomes, outcome))

----------------------------------------------------------------------------
(* State updates of handleGenerateClick *)

\* lines 101-102
RejectTrigger ==
    /\ error' = ValidationMsg
    /\ UNCHANGED <<generatedImage, isLoading>>

BeginAttempt_KeepsResult ==
    /\ isLoading' = TRUE
    /\ error' = Null
    /\ UNCHANGED generatedImage

\* lines 105-107
BeginAttempt ==
    /\ isLoading' = TRUE
    /\ error' = Null
    /\ generatedImage' = Null

OnSuccess_KeepsLoading(imageUrl) ==
    /\ generatedImage' = imageUrl
    /\ UNCHANGED <<isLoading, error>>

\* lines 114 and 119
OnSuccess(imageUrl) ==
    /\ generatedImage' = imageUrl
    /\ isLoading' = FALSE
    /\ UNCHANGED error

OnFailure_Silent ==
    /\ isLoading' = FALSE
    /\ UNCHANGED <<error, generatedImage>>

OnFailure_NoFinally ==
    /\ error' = FailureMsg
    /\ UNCHANGED <<isLoading, generatedImage>>

\* lines 115-119
OnFailure ==
    /\ error' = FailureMsg
    /\ isLoading' = FALSE
    /\ UNCHANGED generatedImage

----------------------------------------------------------------------------
(* Handlers *)

\* handleFileChange(setChildPhoto, setChildPhotoPreview), lines 71-74, 134
SelectChild(file) ==
    /\ childPhoto' = file
    /\ childPhotoPreview' = createObjectURL(file)
    /\ lastEvent' = "selectChild"
    /\ UNCHANGED <<adultPhoto, adultPhotoPreview, generatedImage, isLoading,
                   error, attempts, lastDone, outcomes, encVars>>

\* handleFileChange(setAdultPhoto, setAdultPhotoPreview), lines 71-74, 135
SelectAdult(file) ==
    /\ adultPhoto' = file
    /\ adultPhotoPreview' = createObjectURL(file)
    /\ lastEvent' = "selectAdult"
    /\ UNCHANGED <<childPhoto, childPhotoPreview, generatedImage, isLoading,
                   error, attempts, lastDone, outcomes, encVars>>

\* The first read of an activation is under way: line 110 is awaited.
StartReads(s) ==
    attempts' = [attempts EXCEPT ![s] =
                    [pc |-> "readChild", child |-> childPhoto,
                     adult |-> adultPhoto, childPhotoData |-> Null,
                     request |-> Null,
                     trace |-> <<"Validating", "Encoding">>]]

handleGenerateClick_NoValidation ==
    /\ \E s \in Slots :
          /\ ~Active(s)
          /\ \A t \in Slots : t < s => Active(t)
          /\ BeginAttempt
          /\ StartReads(s)
    /\ lastEvent' = "generate"
    /\ UNCHANGED <<childPhoto, adultPhoto, childPhotoPreview,
                   adultPhotoPreview, lastDone, outcomes, encVars>>

\* lines 99-110, up to the first await
handleGenerateClick ==
    /\ IF childPhoto = Null \/ adultPhoto = Null
       THEN /\ RejectTrigger
            /\ UNCHANGED attempts
       ELSE \E s \in Slots :
               /\ ~Active(s)
               /\ \A t \in Slots : t < s => Active(t)
               /\ BeginAttempt
               /\ StartReads(s)
    /\ lastEvent' = "generate"
    /\ UNCHANGED <<childPhoto, adultPhoto, childPhotoPreview,
                   adultPhotoPreview, lastDone, outcomes, encVars>>

Disabled_IgnoresLoading == childPhoto = Null \/ adultPhoto = Null

\* line 141
Disabled == childPhoto = Null \/ adultPhoto = Null \/ isLoading

\* A click on the generate button, lines 139-145
ClickGenerate ==
    /\ ~Disabled
    /\ handleGenerateClick

\* handleGenerateClick reached with a photo missing: a call that does not
\* come through the enabled button (which line 141 rules out for a click).
InvokeGenerate ==
    /\ childPhoto = Null \/ adultPhoto = Null
    /\ handleGenerateClick

----------------------------------------------------------------------------
(* Resumptions of handleGenerateClick *)

ChildReadSettles_SkipsAdult(s) ==
    /\ attempts[s].pc = "readChild"
    /\ \E read \in ReadOutcomes(attempts[s].child) :
          LET r == fileToBase64(read)
          IN  IF r.status = "resolved"
              THEN /\ attempts' = [attempts EXCEPT ![s] =
                          [@ EXCEPT !.pc = "request",
                                    !.childPhotoData = ImageData(r),
                                    !.request = [childImage |-> ImageData(r),
                                                 adultImage |-> ImageData(r)],
                                    !.trace = Append(@, "Requesting")]]
                   /\ UNCHANGED <<generatedImage, isLoading, error, lastDone,
                                  outcomes>>
              ELSE /\ OnFailure
                   /\ Finish(s, "Failed", Null)
    /\ lastEvent' = "childRead"
    /\ UNCHANGED <<childPhoto, adultPhoto, childPhotoPreview,
                   adultPhotoPreview, encVars>>

\* The read of line 110 settles; on success line 111 is awaited.
ChildReadSettles(s) ==
    /\ attempts[s].pc = "readChild"
    /\ \E read \in ReadOutcomes(attempts[s].child) :
          LET r == fileToBase64(read)
          IN  IF r.status = "resolved"
              THEN /\ attempts' = [attempts EXCEPT ![s] =
                          [@ EXCEPT !.pc = "readAdult",
                                    !.childPhotoData = ImageData(r)]]
                   /\ UNCHANGED <<generatedImage, isLoading, error, lastDone,
                                  outcomes>>
              ELSE /\ OnFailure
                   /\ Finish(s, "Failed", Null)
    /\ lastEvent' = "childRead"
    /\ UNCHANGED <<childPhoto, adultPhoto, childPhotoPreview,
                   adultPhotoPreview, encVars>>

AdultReadSettles_ReadsSelected(s) ==
    /\ attempts[s].pc = "readAdult"
    /\ \E read \in ReadOutcomes(adultPhoto) :
          LET r == fileToBase64(read)
          IN  IF r.status = "resolved"
              THEN /\ attempts' = [attempts EXCEPT ![s] =
                          [@ EXCEPT !.pc = "request",
                                    !.request =
                                        [childImage |-> attempts[s].childPhotoData,
                                         adultImage |-> ImageData(r)],
                                    !.trace = Append(@, "Requesting")]]
                   /\ UNCHANGED <<generatedImage, isLoading, error, lastDone,
                                  outcomes>>
              ELSE /\ OnFailure
                   /\ Finish(s, "Failed", Null)
    /\ lastEvent' = "adultRead"
    /\ UNCHANGED <<childPhoto, adultPhoto, childPhotoPreview,
                   adultPhotoPreview, encVars>>

\* The read of line 111 settles; on success the client is called, line 113.
AdultReadSettles(s) ==
    /\ attempts[s].pc = "readAdult"
    /\ \E read \in ReadOutcomes(attempts[s].adult) :
          LET r == fileToBase64(read)
          IN  IF r.status = "resolved"
              THEN /\ attempts' = [attempts EXCEPT ![s] =
                          [@ EXCEPT !.pc = "request",
                                    !.request =
                                        [childImage |-> attempts[s].childPhotoData,
                                         adultImage |-> ImageData(r)],
                                    !.trace = Append(@, "Requesting")]]
                   /\ UNCHANGED <<generatedImage, isLoading, error, lastDone,
                                  outcomes>>
              ELSE /\ OnFailure
                   /\ Finish(s, "Failed", Null)
    /\ lastEvent' = "adultRead"
    /\ UNCHANGED <<childPhoto, adultPhoto, childPhotoPreview,
                   adultPhotoPreview, encVars>>

\* The call of line 113 resolves: lines 114 and 119.
ClientResolves(s) ==
    /\ attempts[s].pc = "request"
    /\ \E imageUrl \in generateHuggingImage(attempts[s].request.childImage,
                                            attempts[s].request.adultImage) :
          /\ OnSuccess(imageUrl)
          /\ Finish(s, "Succeeded", imageUrl)
    /\ lastEvent' = "clientResolved"
    /\ UNCHANGED <<childPhoto, adultPhoto, childPhotoPreview,
                   adultPhotoPreview, encVars>>

\* The call of line 113 rejects: lines 115-119.
ClientRejects(s) ==
    /\ attempts[s].pc = "request"
    /\ OnFailure
    /\ Finish(s, "Failed", Null)
    /\ lastEvent' = "clientRejected"
    /\ UNCHANGED <<childPhoto, adultPhoto, childPhotoPreview,
                   adultPhotoPreview, encVars>>

Settle ==
    \E s \in Slots :
        \/ ChildReadSettles(s)
        \/ AdultReadSettles(s)
        \/ ClientResolves(s)
        \/ ClientRejects(s)

----------------------------------------------------------------------------
(* The lone encoder: one fileToBase64 on an arbitrary read result *)

ReadResults == {ReadSuccess(str) : str \in Strings} \cup {ReadFailure}

Pending == [status |-> "pending", reason |-> "",
            mimeType |-> <<>>, data |-> <<>>]

\* reader.onload or reader.onerror fires, lines 80-95
ReaderSettles ==
    /\ encOutput = Pending
    /\ encOutput' = fileToBase64(encInput)
    /\ UNCHANGED <<encInput, appVars>>

----------------------------------------------------------------------------
(* Specifications *)

AppInit ==
    /\ childPhoto = Null
    /\ adultPhoto = Null
    /\ childPhotoPreview = Null
    /\ adultPhotoPreview = Null
    /\ generatedImage = Null
    /\ isLoading = FALSE
    /\ error = Null
    /\ attempts = [s \in Slots |-> FreeSlot]
    /\ lastEvent = "init"
    /\ lastDone = NoneDone
    /\ outcomes = <<>>

\* The mounted component, lines 63-69; no encoder outside an activation.
Init ==
    /\ AppInit
    /\ encInput = ReadFailure
    /\ encOutput = Rejected("read error")

UserSelects ==
    \E file \in Files : SelectChild(file) \/ SelectAdult(file)

\* The component as the user drives it.
Next ==
    \/ UserSelects
    \/ ClickGenerate
    \/ Settle

Spec == Init /\ [][Next]_vars

\* Reads and the client call settle.
SpecFair == Spec /\ WF_vars(Settle)

\* The component, and the handler also reached while a photo is missing.
NextDirect ==
    \/ UserSelects
    \/ ClickGenerate
    \/ InvokeGenerate
    \/ Settle

SpecDirect == Init /\ [][NextDirect]_vars

EncInit ==
    /\ AppInit
    /\ encInput \in ReadResults
    /\ encOutput = Pending

EncNext == ReaderSettles

SpecEnc == EncInit /\ [][EncNext]_vars

----------------------------------------------------------------------------
(* Claims *)

Last(h) == h[Len(h)]

Encoded(file) == fileToBase64(ReadSuccess(Content(file)))

UserStep == lastEvent' \in {"selectChild", "selectAdult", "generate"}

EndedInFailure ==
    \/ lastEvent = "clientRejected"
    \/ lastEvent \in {"childRead", "adultRead"} /\ InFlight = {}

\* C1: a trigger with the child or the adult photo absent sets the
\* validation message, starts no read and no client call, and leaves
\* isLoading false.
C1_TriggerWithoutBothPhotos ==
    [][(lastEvent' = "generate" /\ (childPhoto = Null \/ adultPhoto = Null))
         => /\ error' = ValidationMsg
            /\ attempts' = attempts
            /\ InFlight = {}
            /\ ~isLoading
            /\ ~isLoading']_vars

C1_Witness ==
    /\ lastEvent = "generate"
    /\ childPhoto # Null
    /\ adultPhoto = Null
    /\ error = ValidationMsg

\* C2: a file selected while the last attempt has succeeded or failed sets
\* the preview to the new file and leaves generatedImage and error absent.
C2_SelectionClearsResult ==
    [][(/\ lastEvent' \in {"selectChild", "selectAdult"}
        /\ ~isLoading
        /\ (generatedImage # Null \/ error # Null))
         => /\ generatedImage' = Null
            /\ error' = Null
            /\ lastEvent' = "selectChild"
                  => childPhotoPreview' = createObjectURL(childPhoto')
            /\ lastEvent' = "selectAdult"
                  => adultPhotoPreview' = createObjectURL(adultPhoto')]_vars

\* C3: at most one of isLoading, error present, generatedImage present
\* holds in any state.
C3_OneLifecycleState ==
    /\ ~(isLoading /\ error # Null)
    /\ ~(isLoading /\ generatedImage # Null)
    /\ ~(error # Null /\ generatedImage # Null)

C3_Witness ==
    /\ isLoading
    /\ lastDone.result # Null
    /\ Len(outcomes) = MaxHist

\* C4: when the client resolves, the attempt has gone through Validating,
\* Encoding, Requesting in that order and ends Succeeded, with isLoading
\* false, error absent and generatedImage the value the client resolved
\* with.
C4_SuccessPath ==
    lastEvent = "clientResolved"
        => /\ lastDone.trace =
                <<"Validating", "Encoding", "Requesting", "Succeeded">>
           /\ lastDone.result # Null
           /\ generatedImage = lastDone.result
           /\ ~isLoading
           /\ error = Null

C4_Witness ==
    /\ lastEvent = "clientResolved"
    /\ generatedImage # Null
    /\ generatedImage.variant = NumVariants
    /\ generatedImage.child # generatedImage.adult

\* C5: when the client rejects or an encoding fails, the attempt ends
\* Failed with the non-empty failure message and generatedImage absent,
\* also after an attempt that succeeded.
C5_FailurePath ==
    EndedInFailure
        => /\ Last(lastDone.trace) = "Failed"
           /\ lastDone.result = Null
           /\ ~isLoading
           /\ error = FailureMsg
           /\ error.message # ""
           /\ generatedImage = Null

C5_Witness ==
    /\ EndedInFailure
    /\ outcomes = <<"Succeeded", "Failed">>

\* C6: the client is called only once both encodings have succeeded, with
\* the child encoding first and the adult encoding second; an attempt whose
\* encoding fails ends Failed without a call of the client.
C6_JoinBeforeRequest ==
    /\ \A s \in Slots :
          attempts[s].pc = "request"
              => /\ Encoded(attempts[s].child).status = "resolved"
                 /\ Encoded(attempts[s].adult).status = "resolved"
                 /\ attempts[s].request =
                       [childImage |-> ImageData(Encoded(attempts[s].child)),
                        adultImage |-> ImageData(Encoded(attempts[s].adult))]
    /\ (lastEvent \in {"childRead", "adultRead"} /\ InFlight = {})
          => /\ lastDone.trace = <<"Validating", "Encoding", "Failed">>
             /\ error = FailureMsg
             /\ ~isLoading

C6_Witness ==
    \E s \in Slots :
        /\ attempts[s].pc = "request"
        /\ attempts[s].child # attempts[s].adult
        /\ lastDone.trace = <<"Validating", "Encoding", "Failed">>

\* C7: at most one attempt is in flight; while one is, the button is
\* disabled and a click starts nothing; no selection or trigger changes an
\* attempt in flight; and every attempt in flight returns.
C7_SingleAttemptInFlight ==
    /\ [](/\ Cardinality(InFlight) <= 1
          /\ isLoading <=> InFlight # {}
          /\ isLoading => ~ENABLED ClickGenerate)
    /\ [][UserStep => /\ isLoading' = isLoading \/ ~isLoading
                      /\ \A s \in Slots :
                            Active(s) => attempts'[s] = attempts[s]]_vars
    /\ \A s \in Slots : Active(s) ~> ~Active(s)

C7_Witness ==
    /\ isLoading
    /\ lastEvent = "selectAdult"
    /\ \E s \in Slots : attempts[s].pc = "request"

\* The regular expression's match on the header: the leftmost ":" with a
\* ";" later on the same line, up to the nearest ";".
C8_MimeOf(header, i, j) ==
    /\ header[i] = ":"
    /\ header[j] = ";"
    /\ i < j
    /\ \A k \in (i + 1)..(j - 1) : header[k] \notin {";", "NL"}
    /\ \A m \in 1..(i - 1) :
          header[m] = ":"
              => \A n \in (m + 1)..Len(header) :
                    header[n] = ";"
                        => \E k \in (m + 1)..(n - 1) : header[k] = "NL"

\* C8: fileToBase64 resolves exactly when the read result has a non-empty
\* header before its first comma, a non-empty payload after it and a
\* non-empty mime matched in the header, and then with that mime and that
\* payload; it never resolves with an empty mimeType or data.
C8_EncoderNeverYieldsEmpty ==
    encOutput.status # "pending" =>
        LET str == encInput.result
            n == Len(str)
            Shapes == {t \in (1..n) \X (1..n) \X (1..n) \X (1..n) :
                         /\ t[1] < t[2] /\ t[2] < t[3] /\ t[3] < t[4]
                         /\ str[t[3]] = ","
                         /\ \A k \in 1..t[3] : str[k] = "," => k = t[3]
                         /\ \A k \in (t[3] + 1)..t[4] : str[k] # ","
                         /\ t[4] = n \/ str[t[4] + 1] = ","
                         /\ C8_MimeOf(SubSeq(str, 1, t[3] - 1), t[1], t[2])
                         /\ t[2] > t[1] + 1}
        IN  /\ encOutput.status \in {"resolved", "rejected"}
            /\ encOutput.status = "resolved"
                  => /\ encOutput.mimeType # <<>>
                     /\ encOutput.data # <<>>
            /\ encOutput.status = "resolved" <=> (encInput.ok /\ Shapes # {})
            /\ \A t \in Shapes :
                  encInput.ok
                      => /\ encOutput.mimeType = SubSeq(str, t[1] + 1, t[2] - 1)
                         /\ encOutput.data = SubSeq(str, t[3] + 1, t[4])

C8_Witness ==
    /\ encInput = ReadSuccess(<<":", ";", ",", "a">>)
    /\ encOutput.reason = "Could not determine MIME type"

\* C9: with reads and the client call settling, every attempt ends with
\* isLoading false, Succeeded or Failed; after a failure the button is
\* enabled again while both photos are selected.
C9_FailureIsRecoverable ==
    /\ isLoading ~> (/\ ~isLoading
                     /\ InFlight = {}
                     /\ lastDone.trace # <<>>
                     /\ Last(lastDone.trace) \in {"Succeeded", "Failed"})
    /\ []((EndedInFailure /\ childPhoto # Null /\ adultPhoto # Null)
             => (~Disabled /\ ENABLED ClickGenerate))

C9_Witness ==
    /\ outcomes = <<"Failed", "Succeeded">>
    /\ lastEvent = "clientResolved"
    /\ generatedImage # Null
    /\ error = Null

\* C10: a selection while an attempt is pending leaves the pending state
\* and the attempt as they are, and the reference stored when the client
\* resolves answers the request made from the files the attempt captured
\* when it was triggered.
C10_AttemptUsesCapturedFiles ==
    /\ [](isLoading => ENABLED UserSelects)
    /\ [][(lastEvent' \in {"selectChild", "selectAdult"} /\ isLoading)
            => /\ isLoading'
               /\ attempts' = attempts
               /\ generatedImage' = generatedImage]_vars
    /\ [][lastEvent' = "clientResolved"
            => \E s \in Slots :
                  /\ attempts[s].pc = "request"
                  /\ ~Active(s)'
                  /\ generatedImage' \in
                        generateHuggingImage(
                            ImageData(Encoded(attempts[s].child)),
                            ImageData(Encoded(attempts[s].adult)))]_vars

C10_Witness ==
    /\ lastEvent = "clientResolved"
    /\ generatedImage # Null
    /\ generatedImage.adult # ImageData(Encoded(adultPhoto))
    /\ generatedImage.child = ImageData(Encoded(childPhoto))

====
